---- MODULE Spec2Model ----
(***************************************************************************)
(* Mirror-and-publish pipeline of fabric-tools:                            *)
(*   azure_devops_to_fabric_sync.py, jfrog_to_fabric_sync.py (drivers,     *)
(*   MirrorState ledger, download_url_to_path) and                         *)
(*   upload_wheel_to_fabric.py (FabricEnvironmentManager).                 *)
(***************************************************************************)
EXTENDS Integers, Sequences, FiniteSets, TLC

(***************************************************************************)
(* Bounds of the model.                                                    *)
(***************************************************************************)
\* number of 8192-byte chunks a registry file streams as
NumChunks == 2
\* largest max_retries value given to upload_wheel / download_url_to_path
\* when they are exercised on their own
MaxRetriesBound == 4
\* number of pipeline invocations (runs of main) over the same cache root
MaxRuns == 2
\* number of faults the environment injects in one behaviour of the pipeline
MaxFaults == 3

(***************************************************************************)
(* Program constants.                                                      *)
(***************************************************************************)
\* fabric_mgr.upload_wheel(local_path, max_retries=3)
DriverUploadRetries == 3
\* def download_url_to_path(..., max_retries: int = 3)
DefaultDownloadRetries == 3
\* def _wait_for_publish_completion(self, operation_id, max_wait: int = 300)
max_wait == 300
\* time.sleep(10) in the polling loop
PollSleep == 10
\* wait_time = 2 ** attempt ; time.sleep(2 ** (attempts - 1))
BackoffBase == 2
\* parser.add_argument("--upload-wheels-only", action="store_true", default=True)
upload_wheels_only == TRUE
VALID_DISTS == {".whl", ".tar.gz", ".zip"}

(***************************************************************************)
(* The world the pipeline runs against: a registry with two packages.      *)
(***************************************************************************)
PkgList == <<"p1", "p2">>
Pkgs == {PkgList[i] : i \in 1..Len(PkgList)}

\* hrefs of the simple index page of each package, in page order
SimpleIndex == [p \in Pkgs |->
    IF p = "p1" THEN <<"a-1.0.whl", "a-1.0.tar.gz", "a-1.0.exe">>
                ELSE <<"b-2.0.whl">>]
\* files of the whole Artifactory repository (storage API, deep listing)
RepoFiles == <<"a-1.0.whl", "a-1.0.tar.gz", "a-1.0.exe", "b-2.0.whl", "C-3.0.ZIP">>
FileNames == {RepoFiles[i] : i \in 1..Len(RepoFiles)}

\* what a link of an index page may carry after the file's name: nothing,
\* a query string, a hash fragment (PEP 503), or both
HashFragment == "#sha256=0a1b"
LinkTails == {"", "?raw=1", HashFragment, "?raw=1#sha256=0a1b"}
\* the text name + HashFragment
WithFragment(f) ==
    CASE f = "a-1.0.whl"    -> "a-1.0.whl#sha256=0a1b"
      [] f = "b-2.0.whl"    -> "b-2.0.whl#sha256=0a1b"
      [] f = "a-1.0.tar.gz" -> "a-1.0.tar.gz#sha256=0a1b"
      [] f = "C-3.0.ZIP"    -> "C-3.0.ZIP#sha256=0a1b"
      [] OTHER              -> "a-1.0.exe#sha256=0a1b"
\* every text the drivers may take for a filename
AllNames == FileNames \cup {WithFragment(f) : f \in FileNames}

\* the ending of each filename, as written
RawExt == [f \in AllNames |->
    CASE f = "a-1.0.whl"    -> ".whl"
      [] f = "b-2.0.whl"    -> ".whl"
      [] f = "a-1.0.tar.gz" -> ".tar.gz"
      [] f = "C-3.0.ZIP"    -> ".ZIP"
      [] f = "a-1.0.exe"    -> ".exe"
      [] OTHER              -> "=0a1b"]
\* str.lower() on an ending
Lower(x) ==
    CASE x = ".ZIP" -> ".zip"
      [] x = ".WHL" -> ".whl"
      [] x = ".TAR.GZ" -> ".tar.gz"
      [] OTHER -> x
\* the ending of filename.lower()
LowerExt == [f \in AllNames |-> Lower(RawExt[f])]

\* e["filename"].lower().endswith(VALID_DISTS)
IsValidDistMut(f) == RawExt[f] \in VALID_DISTS
IsValidDist(f) == LowerExt[f] \in VALID_DISTS
\* filename.lower().endswith(".whl")
IsWheel(f) == LowerExt[f] = ".whl"

(***************************************************************************)
(* Files and bytes.                                                        *)
(***************************************************************************)
NoFile == [exists |-> FALSE, bytes |-> <<>>]
FileOf(b) == [exists |-> TRUE, bytes |-> b]
\* the bytes the registry serves for f, as the chunks iter_content yields
RegistryBytes(f) == [i \in 1..NumChunks |-> <<f, i>>]
\* bytes a user puts at a cache path by hand between two runs
ReplacedBytes(f) == << <<f, 0>> >>

\* paths under the cache root: <<filename, suffix>>
\* local_path = os.path.join(cache_dir, filename)
CachePath(f) == <<f, "">>
Paths == FileNames \X {"", ".part"}
NoPath == <<"", "">>

\* sha256_of_file: a digest determined by, and determining, the bytes
sha256_of_file(file) == <<"sha256", file.bytes>>
NoDigest == <<>>

VARIABLES
    \* ---- disk
    fs,           \* files of the cache directory: path -> file
    ledgerFile,   \* the state file at its final path
    ledgerTmp,    \* the state file's ".tmp" sibling
    \* ---- FabricEnvironmentManager.upload_wheel frame (uw_posts counts the
    \* calls of _attempt_upload, uw_oks those that got status 200)
    uw_pc, uw_path, uw_max, uw_attempt, uw_posts, uw_oks, uw_sleeps, uw_result,
    \* ---- download_url_to_path frame
    dl_pc, dl_dest, dl_max, dl_attempts, dl_sleeps,
    \* ---- publish_environment / _wait_for_publish_completion frame
    pub_pc, pub_result, elapsed, polls, pub_pending, pub_clean, pub_last,
    netLatency,
    \* ---- driver (main + mirror_package_from_*)
    driver, publish_after, run, pc, pkgIdx, entries, entIdx,
    sha256, isUp, ledgerMem, dataType,
    \* ---- bookkeeping of what happened (read by the properties only);
    \* accessed: the <<package, cache path>> pairs this run has worked on
    prevOk, curOk, curCalls, replaced, vanished, accessed, publishCalls,
    outcome, lastEnd,
    \* ---- the environment: faults it may still inject, and the pipeline
    \* processes that run side by side on the same cache root
    budget, inst

diskVars == <<fs, ledgerFile, ledgerTmp>>
uwVars == <<uw_pc, uw_path, uw_max, uw_attempt, uw_posts, uw_oks, uw_sleeps,
           uw_result>>
dlVars == <<dl_pc, dl_dest, dl_max, dl_attempts, dl_sleeps>>
pubVars == <<pub_pc, pub_result, elapsed, polls, pub_pending, pub_clean,
             pub_last, netLatency>>
drvVars == <<driver, publish_after, run, pc, pkgIdx, entries, entIdx,
             sha256, isUp, ledgerMem, dataType>>
histVars == <<prevOk, curOk, curCalls, replaced, vanished, accessed,
              publishCalls, outcome, lastEnd>>
vars == <<diskVars, uwVars, dlVars, pubVars, drvVars, histVars, budget, inst>>

\* a step in which the environment misbehaves (a failed network exchange,
\* a kill, a cache file replaced by hand) uses up one unit of its budget
\* (in both cases no process running side by side takes a step)
Fault == budget > 0 /\ budget' = budget - 1 /\ UNCHANGED inst
NoFault == UNCHANGED <<budget, inst>>
\* no pipeline process runs side by side
NoInstances == <<>>


(***************************************************************************)
(* FabricEnvironmentManager.upload_wheel and _attempt_upload.              *)
(***************************************************************************)
NoResult == [success |-> FALSE, status_code |-> 0, kind |-> "none"]
\* statuses of the staging endpoint other than 200
ErrStatuses == {401, 500}

\* _attempt_upload's result for a response with status code sc
AttemptResultMut(sc) == [success |-> TRUE, status_code |-> sc, kind |-> "staged"]
AttemptResult(sc) ==
    IF sc = 200
    THEN [success |-> TRUE, status_code |-> sc, kind |-> "staged"]
    ELSE [success |-> FALSE, status_code |-> sc, kind |-> "http_error"]
\* the dict built when the last attempt raised
ExceptionResult == [success |-> FALSE, status_code |-> 0, kind |-> "exception"]
\* the dict returned when the for loop runs out
ExhaustedResult == [success |-> FALSE, status_code |-> 0, kind |-> "exhausted"]

\* for attempt in range(max_retries)
UwInRange(attempt, maxr) == attempt < maxr
\* if attempt == max_retries - 1
UwIsLastMut(attempt, maxr) == attempt >= maxr - 2
UwIsLast(attempt, maxr) == attempt = maxr - 1
\* wait_time = 2 ** attempt
UwWaitTimeMut(attempt) == BackoffBase * (attempt + 1)
UwWaitTime(attempt) == BackoffBase ^ attempt
\* if not os.path.exists(wheel_path): raise FileNotFoundError
UwMissingRaises(path) == ~fs[path].exists

UwFrameIdle ==
    /\ uw_pc = "idle" /\ uw_path = NoPath /\ uw_max = 0 /\ uw_attempt = 0
    /\ uw_posts = 0 /\ uw_oks = 0 /\ uw_sleeps = <<>> /\ uw_result = NoResult

\* entry of upload_wheel: the existence check before the loop
UwEnter ==
    /\ uw_pc = "call"
    /\ uw_pc' = IF UwMissingRaises(uw_path) THEN "raised" ELSE "loop"
    /\ UNCHANGED <<uw_path, uw_max, uw_attempt, uw_posts, uw_oks, uw_sleeps,
                   uw_result>>
    /\ UNCHANGED <<diskVars, dlVars, pubVars, drvVars, histVars>>
    /\ NoFault

\* the loop ran out of attempts without returning (max_retries <= 0)
UwExhausted ==
    /\ uw_pc = "loop"
    /\ ~UwInRange(uw_attempt, uw_max)
    /\ uw_pc' = "returned"
    /\ uw_result' = ExhaustedResult
    /\ UNCHANGED <<uw_path, uw_max, uw_attempt, uw_posts, uw_oks, uw_sleeps>>
    /\ UNCHANGED <<diskVars, dlVars, pubVars, drvVars, histVars>>
    /\ NoFault

\* one iteration whose _attempt_upload got status 200
UwAttemptOk ==
    /\ uw_pc = "loop"
    /\ UwInRange(uw_attempt, uw_max)
    /\ uw_posts' = uw_posts + 1
    /\ uw_oks' = uw_oks + 1
    /\ uw_result' = AttemptResult(200)
    /\ uw_pc' = "returned"
    /\ UNCHANGED <<uw_path, uw_max, uw_attempt, uw_sleeps>>
    /\ UNCHANGED <<diskVars, dlVars, pubVars, drvVars, histVars>>
    /\ NoFault

\* what a failed iteration does next: return on the last attempt, else
\* sleep and go round the loop
UwAfterFailure(res) ==
    IF UwIsLast(uw_attempt, uw_max)
    THEN /\ uw_pc' = "returned"
         /\ uw_result' = res
         /\ UNCHANGED <<uw_attempt, uw_sleeps>>
    ELSE /\ uw_pc' = "loop"
         /\ uw_result' = uw_result
         /\ uw_sleeps' = Append(uw_sleeps, UwWaitTime(uw_attempt))
         /\ uw_attempt' = uw_attempt + 1

\* one iteration whose _attempt_upload got an error status
UwAttemptErrStatus ==
    /\ uw_pc = "loop"
    /\ UwInRange(uw_attempt, uw_max)
    /\ uw_posts' = uw_posts + 1
    /\ \E sc \in ErrStatuses : UwAfterFailure(AttemptResult(sc))
    /\ UNCHANGED <<uw_path, uw_max, uw_oks>>
    /\ UNCHANGED <<diskVars, dlVars, pubVars, drvVars, histVars>>
    /\ Fault

\* one iteration whose _attempt_upload raised (open or requests.post)
UwAttemptException ==
    /\ uw_pc = "loop"
    /\ UwInRange(uw_attempt, uw_max)
    /\ uw_posts' = uw_posts + 1
    /\ UwAfterFailure(ExceptionResult)
    /\ UNCHANGED <<uw_path, uw_max, uw_oks>>
    /\ UNCHANGED <<diskVars, dlVars, pubVars, drvVars, histVars>>
    /\ Fault

(***************************************************************************)
(* download_url_to_path (identical in both drivers).                       *)
(***************************************************************************)
\* tmp = dest_path + ".part"
DlTmpPathMut(dest) == dest
DlTmpPath(dest) == <<dest[1], ".part">>
\* while attempts < max_retries
DlInRange(attempts, maxr) == attempts < maxr
\* if attempts >= max_retries: raise
DlGiveUpMut(attempts, maxr) == attempts >= maxr - 1
DlGiveUp(attempts, maxr) == attempts >= maxr
\* time.sleep(2 ** (attempts - 1))
DlWaitTime(attempts) == BackoffBase ^ (attempts - 1)
\* shutil.move(tmp, dest_path): a rename within the cache directory
MoveFile(f, src, dst) ==
    IF src = dst THEN f
    ELSE [q \in DOMAIN f |-> IF q = dst THEN f[src]
                             ELSE IF q = src THEN NoFile ELSE f[q]]

DlFrameIdle ==
    /\ dl_pc = "idle" /\ dl_dest = NoPath /\ dl_max = 0 /\ dl_attempts = 0
    /\ dl_sleeps = <<>>

\* the while loop ends without an attempt left (max_retries <= 0 only):
\* the function returns None
DlLoopExit ==
    /\ dl_pc = "loop"
    /\ ~DlInRange(dl_attempts, dl_max)
    /\ dl_pc' = "returned"
    /\ UNCHANGED <<dl_dest, dl_max, dl_attempts, dl_sleeps>>
    /\ UNCHANGED <<diskVars, uwVars, pubVars, drvVars, histVars>>
    /\ NoFault

\* the except branch: re-raise on the last attempt, else sleep and loop
DlAfterFailure(att) ==
    IF DlGiveUp(att, dl_max)
    THEN /\ dl_pc' = "raised"
         /\ UNCHANGED dl_sleeps
    ELSE /\ dl_pc' = "loop"
         /\ dl_sleeps' = Append(dl_sleeps, DlWaitTime(att))

\* attempts += 1; session.get and raise_for_status succeed; open(tmp, "wb")
DlGetOk ==
    /\ dl_pc = "loop"
    /\ DlInRange(dl_attempts, dl_max)
    /\ dl_attempts' = dl_attempts + 1
    /\ fs' = [fs EXCEPT ![DlTmpPath(dl_dest)] = FileOf(<<>>)]
    /\ dl_pc' = "stream"
    /\ UNCHANGED <<dl_dest, dl_max, dl_sleeps>>
    /\ UNCHANGED <<ledgerFile, ledgerTmp, uwVars, pubVars, drvVars, histVars>>
    /\ NoFault

\* attempts += 1; session.get or raise_for_status raises
DlGetFail ==
    /\ dl_pc = "loop"
    /\ DlInRange(dl_attempts, dl_max)
    /\ dl_attempts' = dl_attempts + 1
    /\ DlAfterFailure(dl_attempts + 1)
    /\ UNCHANGED <<dl_dest, dl_max>>
    /\ UNCHANGED <<diskVars, uwVars, pubVars, drvVars, histVars>>
    /\ Fault

\* number of chunks of the response written so far
DlWritten == Len(fs[DlTmpPath(dl_dest)].bytes)

\* iter_content yields the next chunk; f.write(chunk)
DlChunk ==
    /\ dl_pc = "stream"
    /\ DlWritten < NumChunks
    /\ fs' = [fs EXCEPT ![DlTmpPath(dl_dest)] =
                FileOf(Append(@.bytes, RegistryBytes(dl_dest[1])[DlWritten + 1]))]
    /\ UNCHANGED dlVars
    /\ UNCHANGED <<ledgerFile, ledgerTmp, uwVars, pubVars, drvVars, histVars>>
    /\ NoFault

\* the stream is interrupted: iter_content (or write) raises
DlStreamFail ==
    /\ dl_pc = "stream"
    /\ DlAfterFailure(dl_attempts)
    /\ UNCHANGED <<dl_dest, dl_max, dl_attempts>>
    /\ UNCHANGED <<diskVars, uwVars, pubVars, drvVars, histVars>>
    /\ Fault

\* the stream ended; shutil.move(tmp, dest_path); return
DlMove ==
    /\ dl_pc = "stream"
    /\ DlWritten = NumChunks
    /\ fs' = MoveFile(fs, DlTmpPath(dl_dest), dl_dest)
    /\ dl_pc' = "returned"
    /\ UNCHANGED <<dl_dest, dl_max, dl_attempts, dl_sleeps>>
    /\ UNCHANGED <<ledgerFile, ledgerTmp, uwVars, pubVars, drvVars, histVars>>
    /\ NoFault


(***************************************************************************)
(* FabricEnvironmentManager.publish_environment and                        *)
(* _wait_for_publish_completion.  Time is in seconds; elapsed is           *)
(* time.time() - start_time; every GET of the operation takes netLatency.  *)
(***************************************************************************)
\* values of operation_status.get('status', 'Unknown') in a 200 answer
OpStatuses == {"Succeeded", "Failed", "Running", "NotStarted", "Unknown"}

MsgPublished == "Environment published successfully"
MsgNoOpId == "Environment published successfully (no operation ID)"
MsgActive == "Environment published and active"
ErrOpFailed == "Publish operation failed"
ErrTimeout == "Timeout waiting for publish completion"
ErrPublishHttp == "Publish failed: HTTP"

\* the three dicts _wait_for_publish_completion can return
SucceededResult == [success |-> TRUE, status_code |-> 0, kind |-> MsgActive]
FailedResult == [success |-> FALSE, status_code |-> 0, kind |-> ErrOpFailed]
TimeoutResultMut == FailedResult
TimeoutResult == [success |-> FALSE, status_code |-> 0, kind |-> ErrTimeout]

\* while time.time() - start_time < max_wait
PollInTimeMut(el) == el <= max_wait
PollInTime(el) == el < max_wait
\* the if / elif chain on status: what the loop does with a 200 answer
PollDispositionMut(status) ==
    CASE status = "Failed"    -> "return_failure"
      [] status \in {"Running", "NotStarted"} -> "sleep"
      [] OTHER                -> "sleep_unknown"
PollDispositionUnknownFails(status) ==
    CASE status = "Succeeded" -> "return_success"
      [] status \in {"Running", "NotStarted"} -> "sleep"
      [] OTHER                -> "return_failure"
PollDisposition(status) ==
    CASE status = "Succeeded" -> "return_success"
      [] status = "Failed"    -> "return_failure"
      [] status \in {"Running", "NotStarted"} -> "sleep"
      [] OTHER                -> "sleep_unknown"

PubFrameIdle ==
    /\ pub_pc = "idle" /\ pub_result = NoResult /\ elapsed = 0 /\ polls = 0
    /\ pub_pending = 0 /\ pub_clean = TRUE /\ pub_last = "none"

\* session.post(url) raises: publish_environment has no handler
PubPostRaises ==
    /\ pub_pc = "call"
    /\ pub_pc' = "raised"
    /\ UNCHANGED <<pub_result, elapsed, polls, pub_pending, pub_clean, pub_last,
                   netLatency>>
    /\ UNCHANGED <<diskVars, uwVars, dlVars, drvVars, histVars>>
    /\ NoFault

\* status codes the publish endpoint may answer with
PostStatuses == {200, 202} \cup ErrStatuses
\* how the answer of the POST is remembered in pub_last
PostTag(sc, hasId) ==
    CASE sc = 200 -> "post_200"
      [] sc = 202 /\ hasId -> "post_202_id"
      [] sc = 202 -> "post_202_noid"
      [] OTHER -> "post_error"
\* the if chain of publish_environment on response.status_code and on the
\* x-ms-operation-id header
PostDispositionMut(sc, hasId) ==
    IF sc \in {200, 202} THEN "return_published" ELSE "return_error"
PostDisposition(sc, hasId) ==
    IF sc \in {200, 202}
    THEN IF sc = 202
         THEN IF hasId THEN "poll" ELSE "return_no_id"
         ELSE "return_published"
    ELSE "return_error"

\* the POST is answered with status sc, with or without the header
PubAnswered(sc, hasId) ==
    /\ pub_last' = PostTag(sc, hasId)
    /\ LET d == PostDisposition(sc, hasId) IN
       CASE d = "poll" ->
              /\ pub_pc' = "poll"
              /\ elapsed' = 0
              /\ UNCHANGED pub_result
         [] d = "return_published" ->
              /\ pub_pc' = "returned"
              /\ pub_result' = [success |-> TRUE, status_code |-> sc, kind |-> MsgPublished]
              /\ UNCHANGED elapsed
         [] d = "return_no_id" ->
              /\ pub_pc' = "returned"
              /\ pub_result' = [success |-> TRUE, status_code |-> sc, kind |-> MsgNoOpId]
              /\ UNCHANGED elapsed
         [] OTHER ->
              /\ pub_pc' = "returned"
              /\ pub_result' = [success |-> FALSE, status_code |-> sc, kind |-> ErrPublishHttp]
              /\ UNCHANGED elapsed
    /\ UNCHANGED <<polls, pub_pending, pub_clean, netLatency>>
    /\ UNCHANGED <<diskVars, uwVars, dlVars, drvVars, histVars>>
    /\ NoFault

\* response.status_code == 200
PubPost200 ==
    /\ pub_pc = "call"
    /\ \E hasId \in BOOLEAN : PubAnswered(200, hasId)

\* 202 with an x-ms-operation-id header: start of the polling loop
PubPost202 ==
    /\ pub_pc = "call"
    /\ PubAnswered(202, TRUE)

\* 202 without the header
PubPost202NoId ==
    /\ pub_pc = "call"
    /\ PubAnswered(202, FALSE)

\* any other status
PubPostError ==
    /\ pub_pc = "call"
    /\ \E sc \in ErrStatuses, hasId \in BOOLEAN : PubAnswered(sc, hasId)

\* one iteration: GET answered 200 with a status
PollAnswer ==
    /\ pub_pc = "poll"
    /\ PollInTime(elapsed)
    /\ polls' = polls + 1
    /\ \E status \in OpStatuses :
         /\ pub_last' = status
         /\ LET d == PollDisposition(status) IN
            CASE d = "return_success" ->
                   /\ pub_pc' = "returned"
                   /\ pub_result' = SucceededResult
                   /\ elapsed' = elapsed + netLatency
                   /\ UNCHANGED <<pub_pending, pub_clean>>
              [] d = "return_failure" ->
                   /\ pub_pc' = "returned"
                   /\ pub_result' = FailedResult
                   /\ elapsed' = elapsed + netLatency
                   /\ UNCHANGED <<pub_pending, pub_clean>>
              [] d = "sleep" ->
                   /\ elapsed' = elapsed + netLatency + PollSleep
                   /\ pub_pending' = pub_pending + 1
                   /\ UNCHANGED <<pub_pc, pub_result, pub_clean>>
              [] OTHER ->
                   /\ elapsed' = elapsed + netLatency + PollSleep
                   /\ pub_clean' = FALSE
                   /\ UNCHANGED <<pub_pc, pub_result, pub_pending>>
    /\ UNCHANGED netLatency
    /\ UNCHANGED <<diskVars, uwVars, dlVars, drvVars, histVars>>
    /\ NoFault

\* one iteration: GET answered with a status code other than 200
PollHttpError ==
    /\ pub_pc = "poll"
    /\ PollInTime(elapsed)
    /\ polls' = polls + 1
    /\ pub_last' = "http_error"
    /\ pub_clean' = FALSE
    /\ elapsed' = elapsed + netLatency + PollSleep
    /\ UNCHANGED <<pub_pc, pub_result, pub_pending, netLatency>>
    /\ UNCHANGED <<diskVars, uwVars, dlVars, drvVars, histVars>>
    /\ NoFault

\* one iteration: session.get or response.json() raised
PollException ==
    /\ pub_pc = "poll"
    /\ PollInTime(elapsed)
    /\ polls' = polls + 1
    /\ pub_last' = "exception"
    /\ pub_clean' = FALSE
    /\ elapsed' = elapsed + netLatency + PollSleep
    /\ UNCHANGED <<pub_pc, pub_result, pub_pending, netLatency>>
    /\ UNCHANGED <<diskVars, uwVars, dlVars, drvVars, histVars>>
    /\ NoFault

\* the while condition fails: the timeout dict
PollTimeout ==
    /\ pub_pc = "poll"
    /\ ~PollInTime(elapsed)
    /\ pub_pc' = "returned"
    /\ pub_result' = TimeoutResult
    /\ UNCHANGED <<elapsed, polls, pub_pending, pub_clean, pub_last, netLatency>>
    /\ UNCHANGED <<diskVars, uwVars, dlVars, drvVars, histVars>>
    /\ NoFault


(***************************************************************************)
(* MirrorState: the ledger (identical in both drivers).                    *)
(***************************************************************************)
\* key = f"{pkg_name}:{filename}"
Key(pkg, filename) == <<pkg, filename>>
EmptyDict == <<>>
NoLedgerFile == [exists |-> FALSE, complete |-> FALSE, top |-> "object", doc |-> {}]
\* the state file's path under the cache root: <<STATE_FILENAME, suffix>>
LedgerPath == <<"azure_devops_mirror_state.json", "">>
\* tmp = self.path + ".tmp"
SaveTmpPathMut(path) == path
SaveTmpPath(path) == <<path[1], ".tmp">>
\* a file freshly opened with mode "w", and the file json.dump has written
OpenedForWrite == [exists |-> TRUE, complete |-> FALSE, top |-> "object", doc |-> {}]
\* the state file or its sibling gets new content
WriteLedgerAt(p, file) ==
    IF p = LedgerPath
    THEN ledgerFile' = file /\ UNCHANGED ledgerTmp
    ELSE ledgerTmp' = file /\ UNCHANGED ledgerFile

\* json.dump(self._data, f, indent=2, sort_keys=True): the document's members
JsonDumpMut(data) == {}
JsonDump(data) == {<<k, data[k]>> : k \in DOMAIN data}
\* json.load(f)
JsonLoadMut(doc) == EmptyDict
JsonLoad(doc) == [k \in {m[1] : m \in doc} |-> (CHOOSE m \in doc : m[1] = k)[2]]

\* MirrorState.__init__: load the file if it exists, {} if that raises
MirrorStateInitMut(file) == EmptyDict
MirrorStateInit(file) ==
    IF file.exists /\ file.complete THEN JsonLoad(file.doc) ELSE EmptyDict

\* type(self._data) after __init__: json.load returns whatever value the
\* document holds, a list for a JSON array
LoadedType(file) ==
    IF file.exists /\ file.complete /\ file.top = "array" THEN "list" ELSE "dict"

\* rec = self._data.get(key): a list has no attribute "get"
is_uploadedRaises(type) == type # "dict"

\* MirrorState.is_uploaded
is_uploadedMutKeyOnly(data, key, digest) == key \in DOMAIN data
is_uploaded(data, key, digest) ==
    /\ key \in DOMAIN data
    /\ data[key].sha256 = digest
    /\ data[key].uploaded = TRUE

\* MirrorState.mark_uploaded: the assignment self._data[key] = {...}
\* (the "ts" field, which nothing reads, is left out)
mark_uploadedMut(data, key, digest, upload_meta) ==
    [k \in DOMAIN data \cup {key} |->
        [sha256 |-> NoDigest, uploaded |-> TRUE, upload_meta |-> upload_meta]]
mark_uploaded(data, key, digest, upload_meta) ==
    [k \in DOMAIN data \cup {key} |->
        IF k = key
        THEN [sha256 |-> digest, uploaded |-> TRUE, upload_meta |-> upload_meta]
        ELSE data[k]]

(***************************************************************************)
(* The drivers: main and mirror_package_from_azure / _from_jfrog.          *)
(***************************************************************************)
CurPkg == PkgList[pkgIdx]
CurEntry == entries[entIdx]
CurPath == CachePath(CurEntry.filename)
CurKey == Key(CurPkg, CurEntry.filename)

\* a url is <<directory, name, tail>>, its text directory/name + tail
\* u.split("?")[0]: of the tail, what stands before the first "?"
BeforeQuery(tail) == IF tail = HashFragment THEN HashFragment ELSE ""
\* fname = os.path.basename(u.split("?")[0])
FilenameOfUrl(u) ==
    IF BeforeQuery(u[3]) = "" THEN u[2] ELSE WithFragment(u[2])
\* entries built from the hrefs of a simple index page of the package whose
\* i-th link carries tails[i]
LinkEntries(pkg, tails) ==
    [i \in 1..Len(SimpleIndex[pkg]) |->
        LET u == <<pkg, SimpleIndex[pkg][i], tails[i]>> IN
        [url |-> u, filename |-> FilenameOfUrl(u)]]
\* the same for a page whose links are bare names
IndexEntries(pkg) ==
    LinkEntries(pkg, [i \in 1..Len(SimpleIndex[pkg]) |-> ""])
\* determine_files_from_artifactory_entry over the storage listing
StorageEntries ==
    [i \in 1..Len(RepoFiles) |->
        [url |-> <<"repo", RepoFiles[i], "">>, filename |-> RepoFiles[i]]]
\* entries = [e for e in entries if e["filename"].lower().endswith(VALID_DISTS)]
FilterDists(es) == SelectSeq(es, LAMBDA e : IsValidDist(e.filename))

NoOutcome == [p \in Pkgs |-> "pending"]

DriverLocalsIdle ==
    /\ pkgIdx = 0 /\ entries = <<>> /\ entIdx = 0
    /\ sha256 = NoDigest /\ isUp = FALSE /\ ledgerMem = EmptyDict
    /\ dataType = "dict"

\* main up to the package loop: MirrorState(...) loads the ledger
StartRun ==
    /\ pc = "idle"
    /\ run < MaxRuns
    /\ run' = run + 1
    /\ ledgerMem' = MirrorStateInit(ledgerFile)
    /\ dataType' = LoadedType(ledgerFile)
    /\ pkgIdx' = 1
    /\ pc' = "resolve"
    /\ UNCHANGED <<driver, publish_after, entries, entIdx, sha256, isUp>>
    /\ UNCHANGED <<diskVars, uwVars, dlVars, pubVars, histVars>>
    /\ NoFault

\* between two runs somebody replaces a cached file by other bytes
ReplaceCacheFile ==
    /\ pc = "idle"
    /\ run >= 1
    /\ run < MaxRuns
    /\ \E f \in FileNames :
         /\ fs[CachePath(f)].exists
         /\ fs[CachePath(f)].bytes # ReplacedBytes(f)
         /\ fs' = [fs EXCEPT ![CachePath(f)] = FileOf(ReplacedBytes(f))]
         /\ replaced' = replaced \cup {f}
    /\ UNCHANGED <<prevOk, curOk, curCalls, vanished, accessed, publishCalls, outcome,
                   lastEnd>>
    /\ UNCHANGED <<ledgerFile, ledgerTmp, uwVars, dlVars, pubVars, drvVars>>
    /\ Fault

\* mirror_package_* returns to main's for loop, which takes the next package
\* or prints "Mirror run complete"
PkgReturn(how) ==
    /\ outcome' = [outcome EXCEPT ![CurPkg] = how]
    /\ pkgIdx' = pkgIdx + 1
    /\ pc' = IF pkgIdx + 1 > Len(PkgList) THEN "complete" ELSE "resolve"
    /\ entries' = <<>>
    /\ entIdx' = 0
    /\ sha256' = NoDigest
    /\ isUp' = FALSE

\* `continue`: the for loop over entries takes the next entry
NextEntry ==
    /\ entIdx' = entIdx + 1
    /\ pc' = "entry"
    /\ sha256' = NoDigest
    /\ isUp' = FALSE

\* the simple index of the package is fetched and parsed
ResolvePrimaryOk ==
    /\ pc = "resolve"
    /\ entries' = IndexEntries(CurPkg)
    /\ pc' = "filter"
    /\ UNCHANGED <<driver, publish_after, run, pkgIdx, entIdx, sha256, isUp, ledgerMem, dataType>>
    /\ UNCHANGED <<diskVars, uwVars, dlVars, pubVars, histVars>>
    /\ NoFault

\* the simple index fetch raises: the except branch
ResolvePrimaryFail ==
    /\ pc = "resolve"
    /\ pc' = "fallback"
    /\ UNCHANGED <<driver, publish_after, run, pkgIdx, entries, entIdx, sha256,
                   isUp, ledgerMem, dataType>>
    /\ UNCHANGED <<diskVars, uwVars, dlVars, pubVars, histVars>>
    /\ Fault

\* Azure: the REST listing names the package and the second index fetch works
AzureFallbackOk ==
    /\ pc = "fallback"
    /\ driver = "azure"
    /\ entries' = IndexEntries(CurPkg)
    /\ pc' = "filter"
    /\ UNCHANGED <<driver, publish_after, run, pkgIdx, entIdx, sha256, isUp, ledgerMem, dataType>>
    /\ UNCHANGED <<diskVars, uwVars, dlVars, pubVars, histVars>>
    /\ NoFault

\* Azure: the package is not in the REST listing: return
AzureFallbackNotFound ==
    /\ pc = "fallback"
    /\ driver = "azure"
    /\ PkgReturn("not_in_feed")
    /\ UNCHANGED <<driver, publish_after, run, ledgerMem, dataType>>
    /\ UNCHANGED <<prevOk, curOk, curCalls, replaced, vanished, accessed, publishCalls, lastEnd>>
    /\ UNCHANGED <<diskVars, uwVars, dlVars, pubVars>>
    /\ NoFault

\* Azure: the REST listing or the second index fetch raises:
\* "Could not enumerate package files", return
AzureFallbackRaises ==
    /\ pc = "fallback"
    /\ driver = "azure"
    /\ PkgReturn("resolution_failed")
    /\ UNCHANGED <<driver, publish_after, run, ledgerMem, dataType>>
    /\ UNCHANGED <<prevOk, curOk, curCalls, replaced, vanished, accessed, publishCalls, lastEnd>>
    /\ UNCHANGED <<diskVars, uwVars, dlVars, pubVars>>
    /\ Fault

\* JFrog: the storage listing of the repository
JfrogFallbackOk ==
    /\ pc = "fallback"
    /\ driver = "jfrog"
    /\ entries' = StorageEntries
    /\ pc' = "filter"
    /\ UNCHANGED <<driver, publish_after, run, pkgIdx, entIdx, sha256, isUp, ledgerMem, dataType>>
    /\ UNCHANGED <<diskVars, uwVars, dlVars, pubVars, histVars>>
    /\ NoFault

\* JFrog: artifactory_list raises inside the except branch; nothing up to
\* main catches it
JfrogFallbackRaises ==
    /\ pc = "fallback"
    /\ driver = "jfrog"
    /\ outcome' = [outcome EXCEPT ![CurPkg] = "resolution_failed"]
    /\ pc' = "aborted"
    /\ UNCHANGED <<driver, publish_after, run, pkgIdx, entries, entIdx, sha256,
                   isUp, ledgerMem, dataType>>
    /\ UNCHANGED <<prevOk, curOk, curCalls, replaced, vanished, accessed, publishCalls, lastEnd>>
    /\ UNCHANGED <<diskVars, uwVars, dlVars, pubVars>>
    /\ Fault

\* the extension filter; return when nothing is left
FilterEntries ==
    /\ pc = "filter"
    /\ IF FilterDists(entries) = <<>>
       THEN /\ PkgReturn("no_dists")
       ELSE /\ entries' = FilterDists(entries)
            /\ entIdx' = 1
            /\ pc' = "entry"
            /\ UNCHANGED <<pkgIdx, sha256, isUp, outcome>>
    /\ UNCHANGED <<driver, publish_after, run, ledgerMem, dataType>>
    /\ UNCHANGED <<prevOk, curOk, curCalls, replaced, vanished, accessed, publishCalls, lastEnd>>
    /\ UNCHANGED <<diskVars, uwVars, dlVars, pubVars>>
    /\ NoFault


DlFrameReset ==
    /\ dl_pc' = "idle" /\ dl_dest' = NoPath /\ dl_max' = 0 /\ dl_attempts' = 0
    /\ dl_sleeps' = <<>>
UwFrameReset ==
    /\ uw_pc' = "idle" /\ uw_path' = NoPath /\ uw_max' = 0 /\ uw_attempt' = 0
    /\ uw_posts' = 0 /\ uw_oks' = 0 /\ uw_sleeps' = <<>> /\ uw_result' = NoResult
PubFrameReset ==
    /\ pub_pc' = "idle" /\ pub_result' = NoResult /\ elapsed' = 0 /\ polls' = 0
    /\ pub_pending' = 0 /\ pub_clean' = TRUE /\ pub_last' = "none"
    /\ UNCHANGED netLatency

\* if not os.path.exists(local_path)
NeedsDownloadMut(path) == TRUE
NeedsDownload(path) == ~fs[path].exists

\* the cached file exists: no download
EntryCached ==
    /\ pc = "entry"
    /\ entIdx <= Len(entries)
    /\ ~NeedsDownload(CurPath)
    /\ pc' = "hash"
    /\ accessed' = accessed \cup {<<CurPkg, CurPath>>}
    /\ UNCHANGED <<driver, publish_after, run, pkgIdx, entries, entIdx, sha256,
                   isUp, ledgerMem, dataType>>
    /\ UNCHANGED <<prevOk, curOk, curCalls, replaced, vanished, publishCalls,
                   outcome, lastEnd>>
    /\ UNCHANGED <<diskVars, uwVars, dlVars, pubVars>>
    /\ NoFault

\* download_url_to_path(session, url, local_path) is called
EntryDownload ==
    /\ pc = "entry"
    /\ entIdx <= Len(entries)
    /\ NeedsDownload(CurPath)
    /\ pc' = "downloading"
    /\ dl_pc' = "loop"
    /\ dl_dest' = CurPath
    /\ dl_max' = DefaultDownloadRetries
    /\ dl_attempts' = 0
    /\ dl_sleeps' = <<>>
    /\ accessed' = accessed \cup {<<CurPkg, CurPath>>}
    /\ UNCHANGED <<driver, publish_after, run, pkgIdx, entries, entIdx, sha256,
                   isUp, ledgerMem, dataType>>
    /\ UNCHANGED <<prevOk, curOk, curCalls, replaced, vanished, publishCalls,
                   outcome, lastEnd>>
    /\ UNCHANGED <<diskVars, uwVars, pubVars>>
    /\ NoFault

\* download_url_to_path returned
DownloadReturned ==
    /\ pc = "downloading"
    /\ dl_pc = "returned"
    /\ DlFrameReset
    /\ pc' = "hash"
    /\ UNCHANGED <<driver, publish_after, run, pkgIdx, entries, entIdx, sha256,
                   isUp, ledgerMem, dataType>>
    /\ UNCHANGED <<diskVars, uwVars, pubVars, histVars>>
    /\ NoFault

\* download_url_to_path raised: "Failed to download", continue
DownloadRaised ==
    /\ pc = "downloading"
    /\ dl_pc = "raised"
    /\ DlFrameReset
    /\ NextEntry
    /\ UNCHANGED <<driver, publish_after, run, pkgIdx, entries, ledgerMem, dataType>>
    /\ UNCHANGED <<diskVars, uwVars, pubVars, histVars>>
    /\ NoFault

\* sha256 = sha256_of_file(local_path); state.is_uploaded(pkg_name, filename, sha256)
HashAndCheck ==
    /\ pc = "hash"
    /\ ~is_uploadedRaises(dataType)
    /\ sha256' = sha256_of_file(fs[CurPath])
    /\ isUp' = is_uploaded(ledgerMem, CurKey, sha256_of_file(fs[CurPath]))
    /\ pc' = "checked"
    /\ UNCHANGED <<driver, publish_after, run, pkgIdx, entries, entIdx, ledgerMem, dataType>>
    /\ UNCHANGED <<diskVars, uwVars, dlVars, pubVars, histVars>>
    /\ NoFault

\* an exception leaves mirror_package_* between the download and the upload
\* (no try block there) and then main
EntryAborts(why) ==
    /\ outcome' = [outcome EXCEPT ![CurPkg] = why]
    /\ pc' = "aborted"
    /\ UNCHANGED <<driver, publish_after, run, pkgIdx, entries, entIdx, isUp,
                   ledgerMem, dataType>>
    /\ UNCHANGED <<prevOk, curOk, curCalls, replaced, vanished, accessed, publishCalls, lastEnd>>
    /\ UNCHANGED <<diskVars, uwVars, dlVars, pubVars>>

\* sha256_of_file(local_path) raises (the file cannot be read)
HashRaises ==
    /\ pc = "hash"
    /\ EntryAborts("hash_raised")
    /\ UNCHANGED sha256
    /\ Fault

\* state.is_uploaded(pkg_name, filename, sha256) raises
IsUploadedRaises ==
    /\ pc = "hash"
    /\ is_uploadedRaises(dataType)
    /\ sha256' = sha256_of_file(fs[CurPath])
    /\ EntryAborts("ledger_raised")
    /\ NoFault

\* "Already uploaded", continue
SkipAlreadyUploaded ==
    /\ pc = "checked"
    /\ isUp
    /\ NextEntry
    /\ UNCHANGED <<driver, publish_after, run, pkgIdx, entries, ledgerMem, dataType>>
    /\ UNCHANGED <<diskVars, uwVars, dlVars, pubVars, histVars>>
    /\ NoFault

\* if upload_wheels_only and not filename.lower().endswith(".whl")
SkippedByPolicy(filename) == upload_wheels_only /\ ~IsWheel(filename)

\* "Skipping non-wheel", continue
SkipNonWheel ==
    /\ pc = "checked"
    /\ ~isUp
    /\ SkippedByPolicy(CurEntry.filename)
    /\ NextEntry
    /\ UNCHANGED <<driver, publish_after, run, pkgIdx, entries, ledgerMem, dataType>>
    /\ UNCHANGED <<diskVars, uwVars, dlVars, pubVars, histVars>>
    /\ NoFault

\* fabric_mgr.upload_wheel(local_path, max_retries=3) is called
CallUpload ==
    /\ pc = "checked"
    /\ ~isUp
    /\ ~SkippedByPolicy(CurEntry.filename)
    /\ pc' = "uploading"
    /\ uw_pc' = "call"
    /\ uw_path' = CurPath
    /\ uw_max' = DriverUploadRetries
    /\ uw_attempt' = 0
    /\ uw_posts' = 0
    /\ uw_oks' = 0
    /\ uw_sleeps' = <<>>
    /\ uw_result' = NoResult
    /\ curCalls' = curCalls \cup {CurKey}
    /\ UNCHANGED <<driver, publish_after, run, pkgIdx, entries, entIdx, sha256,
                   isUp, ledgerMem, dataType>>
    /\ UNCHANGED <<prevOk, curOk, replaced, vanished, accessed, publishCalls, outcome, lastEnd>>
    /\ UNCHANGED <<diskVars, dlVars, pubVars>>
    /\ NoFault

\* somebody deletes the cached file after it was hashed, before upload_wheel
\* looks for it
CacheFileVanishes ==
    /\ pc = "uploading"
    /\ uw_pc = "call"
    /\ fs[CurPath].exists
    /\ fs' = [fs EXCEPT ![CurPath] = NoFile]
    /\ replaced' = replaced \cup {CurEntry.filename}
    /\ vanished' = vanished \cup {CurEntry.filename}
    /\ UNCHANGED <<prevOk, curOk, curCalls, accessed, publishCalls, outcome,
                   lastEnd>>
    /\ UNCHANGED <<ledgerFile, ledgerTmp, uwVars, dlVars, pubVars, drvVars>>
    /\ Fault

\* if upload_result.get("success")
UploadSucceededMut(result) == TRUE
UploadSucceeded(result) == result.success

\* upload_result.get("success"): state.mark_uploaded(...) up to its save()
UploadReturnedOk ==
    /\ pc = "uploading"
    /\ uw_pc = "returned"
    /\ UploadSucceeded(uw_result)
    /\ ledgerMem' = mark_uploaded(ledgerMem, CurKey, sha256, uw_result)
    /\ UNCHANGED dataType
    /\ curOk' = curOk \cup {CurKey}
    /\ UwFrameReset
    /\ pc' = "save_open"
    /\ UNCHANGED <<driver, publish_after, run, pkgIdx, entries, entIdx, sha256, isUp>>
    /\ UNCHANGED <<prevOk, curCalls, replaced, vanished, accessed, publishCalls, outcome, lastEnd>>
    /\ UNCHANGED <<diskVars, dlVars, pubVars>>
    /\ NoFault

\* "Upload failed for ...": the loop goes on
UploadReturnedFail ==
    /\ pc = "uploading"
    /\ uw_pc = "returned"
    /\ ~UploadSucceeded(uw_result)
    /\ UwFrameReset
    /\ NextEntry
    /\ UNCHANGED <<driver, publish_after, run, pkgIdx, entries, ledgerMem, dataType>>
    /\ UNCHANGED <<diskVars, dlVars, pubVars, histVars>>
    /\ NoFault

\* upload_wheel raised: "Exception during upload of ...": the loop goes on
UploadRaised ==
    /\ pc = "uploading"
    /\ uw_pc = "raised"
    /\ UwFrameReset
    /\ NextEntry
    /\ UNCHANGED <<driver, publish_after, run, pkgIdx, entries, ledgerMem, dataType>>
    /\ UNCHANGED <<diskVars, dlVars, pubVars, histVars>>
    /\ NoFault

\* MirrorState.save: open(tmp, "w") creates or truncates the ".tmp" file
SaveOpen ==
    /\ pc = "save_open"
    /\ WriteLedgerAt(SaveTmpPath(LedgerPath), OpenedForWrite)
    /\ pc' = "save_dump"
    /\ UNCHANGED <<driver, publish_after, run, pkgIdx, entries, entIdx, sha256,
                   isUp, ledgerMem, dataType>>
    /\ UNCHANGED <<fs, uwVars, dlVars, pubVars, histVars>>
    /\ NoFault

\* MirrorState.save: json.dump writes the document and the file is closed
SaveDump ==
    /\ pc = "save_dump"
    /\ WriteLedgerAt(SaveTmpPath(LedgerPath),
                     [exists |-> TRUE, complete |-> TRUE, top |-> "object",
                      doc |-> JsonDump(ledgerMem)])
    /\ pc' = "save_move"
    /\ UNCHANGED <<driver, publish_after, run, pkgIdx, entries, entIdx, sha256,
                   isUp, ledgerMem, dataType>>
    /\ UNCHANGED <<fs, uwVars, dlVars, pubVars, histVars>>
    /\ NoFault

\* MirrorState.save: shutil.move(tmp, self.path); "Uploaded and recorded"
SaveMove ==
    /\ pc = "save_move"
    /\ IF SaveTmpPath(LedgerPath) = LedgerPath
       THEN UNCHANGED <<ledgerFile, ledgerTmp>>
       ELSE ledgerFile' = ledgerTmp /\ ledgerTmp' = NoLedgerFile
    /\ NextEntry
    /\ UNCHANGED <<driver, publish_after, run, pkgIdx, entries, ledgerMem, dataType>>
    /\ UNCHANGED <<fs, uwVars, dlVars, pubVars, histVars>>
    /\ NoFault

\* the entries are done and publish_after is false: the function returns
EntriesDoneNoPublish ==
    /\ pc = "entry"
    /\ entIdx > Len(entries)
    /\ ~publish_after
    /\ PkgReturn("processed")
    /\ UNCHANGED <<driver, publish_after, run, ledgerMem, dataType>>
    /\ UNCHANGED <<prevOk, curOk, curCalls, replaced, vanished, accessed, publishCalls, lastEnd>>
    /\ UNCHANGED <<diskVars, uwVars, dlVars, pubVars>>
    /\ NoFault

\* the entries are done and publish_after is true:
\* fabric_mgr.publish_environment() is called
EntriesDonePublish ==
    /\ pc = "entry"
    /\ entIdx > Len(entries)
    /\ publish_after
    /\ pc' = "publishing"
    /\ pub_pc' = "call"
    /\ publishCalls' = publishCalls + 1
    /\ UNCHANGED <<pub_result, elapsed, polls, pub_pending, pub_clean, pub_last,
                   netLatency>>
    /\ UNCHANGED <<driver, publish_after, run, pkgIdx, entries, entIdx, sha256,
                   isUp, ledgerMem, dataType>>
    /\ UNCHANGED <<prevOk, curOk, curCalls, replaced, vanished, accessed, outcome, lastEnd>>
    /\ UNCHANGED <<diskVars, uwVars, dlVars>>
    /\ NoFault

\* publish_environment returned or raised: either way it is only printed,
\* and the function returns
PublishDone ==
    /\ pc = "publishing"
    /\ pub_pc \in {"returned", "raised"}
    /\ PubFrameReset
    /\ PkgReturn("processed")
    /\ UNCHANGED <<driver, publish_after, run, ledgerMem, dataType>>
    /\ UNCHANGED <<prevOk, curOk, curCalls, replaced, vanished, accessed, publishCalls, lastEnd>>
    /\ UNCHANGED <<diskVars, uwVars, dlVars>>
    /\ NoFault

\* the keys for which upload_wheel has returned success in this run: those
\* the driver has seen, and the one whose result it is about to read
UploadedOk ==
    curOk \cup (IF pc = "uploading" /\ uw_pc = "returned" /\ uw_result.success
                THEN {CurKey} ELSE {})

\* what is left to the next invocation: the disk, and the bookkeeping of
\* the run that ended
ProcessExit(how) ==
    /\ pc' = "idle"
    /\ lastEnd' = how
    /\ prevOk' = UploadedOk
    /\ curOk' = {}
    /\ curCalls' = {}
    /\ replaced' = vanished
    /\ vanished' = {}
    /\ accessed' = {}
    /\ publishCalls' = 0
    /\ outcome' = NoOutcome
    /\ pkgIdx' = 0 /\ entries' = <<>> /\ entIdx' = 0
    /\ sha256' = NoDigest /\ isUp' = FALSE /\ ledgerMem' = EmptyDict
    /\ dataType' = "dict"
    /\ DlFrameReset /\ UwFrameReset /\ PubFrameReset
    /\ UNCHANGED <<driver, publish_after, run>>
    /\ UNCHANGED diskVars

\* "Mirror run complete": main returns
RunComplete ==
    /\ pc = "complete"
    /\ ProcessExit("complete")
    /\ NoFault

\* an exception left main: the interpreter prints it and exits
RunAborted ==
    /\ pc = "aborted"
    /\ ProcessExit("aborted")
    /\ NoFault

\* the process is killed at any point of a run
Crash ==
    /\ pc \notin {"idle", "complete", "aborted", "standalone"}
    /\ ProcessExit("crashed")
    /\ Fault

\* the process is killed while download_url_to_path runs on its own
DlKilled ==
    /\ pc = "standalone"
    /\ dl_pc \in {"loop", "stream"}
    /\ dl_pc' = "killed"
    /\ UNCHANGED <<dl_dest, dl_max, dl_attempts, dl_sleeps>>
    /\ UNCHANGED <<diskVars, uwVars, pubVars, drvVars, histVars>>
    /\ Fault


(***************************************************************************)
(* Specifications.                                                         *)
(***************************************************************************)
\* seconds one GET of the operation resource takes
Latencies == {0, 40, 290}
DistFiles == {f \in FileNames : IsValidDist(f)}
WheelFiles == {f \in FileNames : IsWheel(f)}

HistInit ==
    /\ prevOk = {} /\ curOk = {} /\ curCalls = {} /\ replaced = {}
    /\ vanished = {} /\ accessed = {}
    /\ publishCalls = 0 /\ outcome = NoOutcome /\ lastEnd = "none"

\* both drivers, started on an empty cache directory
Init ==
    /\ fs = [q \in Paths |-> NoFile]
    /\ ledgerFile = NoLedgerFile
    /\ ledgerTmp = NoLedgerFile
    /\ UwFrameIdle /\ DlFrameIdle /\ PubFrameIdle
    /\ netLatency = 290
    /\ driver \in {"azure", "jfrog"}
    /\ publish_after \in BOOLEAN
    /\ run = 0
    /\ pc = "idle"
    /\ DriverLocalsIdle
    /\ HistInit
    /\ budget = MaxFaults /\ inst = NoInstances

Next ==
    \/ StartRun \/ ReplaceCacheFile
    \/ ResolvePrimaryOk \/ ResolvePrimaryFail
    \/ AzureFallbackOk \/ AzureFallbackNotFound \/ AzureFallbackRaises
    \/ JfrogFallbackOk \/ JfrogFallbackRaises
    \/ FilterEntries
    \/ EntryCached \/ EntryDownload \/ DownloadReturned \/ DownloadRaised
    \/ DlGetOk \/ DlGetFail \/ DlChunk \/ DlStreamFail \/ DlMove
    \/ HashAndCheck \/ HashRaises \/ SkipAlreadyUploaded \/ SkipNonWheel \/ CallUpload
    \/ UwEnter \/ UwAttemptOk \/ UwAttemptErrStatus \/ UwAttemptException
    \/ CacheFileVanishes
    \/ UploadReturnedOk \/ UploadReturnedFail \/ UploadRaised
    \/ SaveOpen \/ SaveDump \/ SaveMove
    \/ EntriesDoneNoPublish \/ EntriesDonePublish \/ PublishDone
    \/ PubPostRaises \/ PubPost200 \/ PubPost202 \/ PubPost202NoId \/ PubPostError
    \/ PollAnswer \/ PollHttpError \/ PollException \/ PollTimeout
    \/ RunComplete \/ RunAborted \/ Crash

Spec == Init /\ [][Next]_vars

\* what the state file may hold when a run starts: nothing, the document of
\* an earlier save, a file that does not parse, a JSON array
UnparseableFile == [exists |-> TRUE, complete |-> FALSE, top |-> "object", doc |-> {}]
ArrayFile == [exists |-> TRUE, complete |-> TRUE, top |-> "array", doc |-> {}]
StartupLedgers == {NoLedgerFile, UnparseableFile, ArrayFile}

\* both drivers, started on an empty cache directory and any state file
InitLedger ==
    /\ fs = [q \in Paths |-> NoFile]
    /\ ledgerFile \in StartupLedgers
    /\ ledgerTmp = NoLedgerFile
    /\ UwFrameIdle /\ DlFrameIdle /\ PubFrameIdle
    /\ netLatency = 290
    /\ driver \in {"azure", "jfrog"}
    /\ publish_after \in BOOLEAN
    /\ run = 0
    /\ pc = "idle"
    /\ DriverLocalsIdle
    /\ HistInit
    /\ budget = MaxFaults /\ inst = NoInstances

LedgerNext == Next \/ IsUploadedRaises

SpecLedger == InitLedger /\ [][LedgerNext]_vars

\* no driver: one of the three procedures is exercised on its own
StandaloneDriver ==
    /\ driver = "none" /\ publish_after = FALSE /\ run = 0 /\ pc = "standalone"
    /\ DriverLocalsIdle
    /\ HistInit
    /\ ledgerFile = NoLedgerFile
    /\ ledgerTmp = NoLedgerFile

\* the staging upload or the download, called on its own:
\* upload_wheel with any max_retries on a path that exists or not, or
\* download_url_to_path with any max_retries on a destination that is
\* absent or holds an earlier complete file, with or without a ".part"
\* left behind by an earlier failure.  The environment may fail every
\* attempt and kill the process once.
InitRetry ==
    /\ StandaloneDriver
    /\ PubFrameIdle
    /\ netLatency = 0
    /\ budget = MaxRetriesBound + 1 /\ inst = NoInstances
    /\ \/ /\ DlFrameIdle
          /\ \E present \in SUBSET DistFiles :
               fs = [q \in Paths |->
                       IF q[2] = "" /\ q[1] \in present
                       THEN FileOf(RegistryBytes(q[1])) ELSE NoFile]
          /\ uw_pc = "call"
          /\ uw_path \in {CachePath(f) : f \in DistFiles}
          /\ uw_max \in 0..MaxRetriesBound
          /\ uw_attempt = 0 /\ uw_posts = 0 /\ uw_oks = 0 /\ uw_sleeps = <<>>
          /\ uw_result = NoResult
       \/ /\ UwFrameIdle
          /\ dl_pc = "loop"
          /\ dl_dest \in {CachePath(f) : f \in DistFiles}
          /\ dl_max \in 0..MaxRetriesBound
          /\ dl_attempts = 0
          /\ dl_sleeps = <<>>
          /\ \E old \in {NoFile, FileOf(ReplacedBytes(dl_dest[1])),
                         FileOf(RegistryBytes(dl_dest[1]))},
                left \in {NoFile, FileOf(<<>>),
                          FileOf(SubSeq(RegistryBytes(dl_dest[1]), 1, 1))} :
               fs = [q \in Paths |->
                       IF q = dl_dest THEN old
                       ELSE IF q = DlTmpPath(dl_dest) THEN left ELSE NoFile]

RetryNext ==
    \/ UwEnter \/ UwExhausted \/ UwAttemptOk \/ UwAttemptErrStatus
    \/ UwAttemptException
    \/ DlLoopExit \/ DlGetOk \/ DlGetFail \/ DlChunk \/ DlStreamFail \/ DlMove
    \/ DlKilled

SpecRetry == InitRetry /\ [][RetryNext]_vars

\* publish_environment called against any behaviour of the service
InitPublish ==
    /\ StandaloneDriver
    /\ fs = [q \in Paths |-> NoFile]
    /\ UwFrameIdle /\ DlFrameIdle
    /\ netLatency \in Latencies
    /\ budget = 0 /\ inst = NoInstances
    /\ pub_pc = "call"
    /\ pub_result = NoResult /\ elapsed = 0 /\ polls = 0
    /\ pub_pending = 0 /\ pub_clean = TRUE /\ pub_last = "none"

PublishNext ==
    \/ PubPostRaises \/ PubPost200 \/ PubPost202 \/ PubPost202NoId \/ PubPostError
    \/ PollAnswer \/ PollHttpError \/ PollException \/ PollTimeout

SpecPublish == InitPublish /\ [][PublishNext]_vars
\* the same, with every call that is under way coming back: session.post
\* and session.get return or raise, time.sleep returns
SpecPublishLive == SpecPublish /\ WF_vars(PublishNext)


(***************************************************************************)
(* main of upload_wheel_to_fabric.py: upload one file, publish on request. *)
(* driver = "cli"; publish_after is --publish; lastEnd is the exit code.   *)
(***************************************************************************)
\* the process ends with the given exit code
CliExit(code) ==
    /\ pc' = "exited"
    /\ lastEnd' = code
    /\ UNCHANGED <<driver, publish_after, run, pkgIdx, entries, entIdx, sha256,
                   isUp, ledgerMem, dataType>>
    /\ UNCHANGED <<prevOk, curOk, curCalls, replaced, vanished, accessed, publishCalls, outcome>>
    /\ UNCHANGED <<diskVars, uwVars, dlVars, pubVars>>

\* FabricEnvironmentManager(...) raises (no usable credentials): the except
\* branch of main, sys.exit(1)
CliManagerFails ==
    /\ pc = "cli_start"
    /\ CliExit("exit_1")
    /\ Fault

\* manager.upload_wheel(args.file, max_retries=args.retries)
CliCallUpload ==
    /\ pc = "cli_start"
    /\ pc' = "cli_uploading"
    /\ uw_pc' = "call"
    /\ \E f \in WheelFiles : uw_path' = CachePath(f)
    /\ \E n \in 0..MaxRetriesBound : uw_max' = n
    /\ UNCHANGED <<uw_attempt, uw_posts, uw_oks, uw_sleeps, uw_result>>
    /\ UNCHANGED <<driver, publish_after, run, pkgIdx, entries, entIdx, sha256,
                   isUp, ledgerMem, dataType>>
    /\ UNCHANGED <<diskVars, dlVars, pubVars, histVars>>
    /\ NoFault

\* if not upload_result['success']: sys.exit(1)
CliUploadFailed ==
    /\ pc = "cli_uploading"
    /\ uw_pc = "returned"
    /\ ~uw_result.success
    /\ CliExit("exit_1")
    /\ NoFault

\* upload_wheel raised: the except branch of main, sys.exit(1)
CliUploadRaised ==
    /\ pc = "cli_uploading"
    /\ uw_pc = "raised"
    /\ CliExit("exit_1")
    /\ NoFault

\* the upload succeeded and --publish was not given: main returns
CliDoneNoPublish ==
    /\ pc = "cli_uploading"
    /\ uw_pc = "returned"
    /\ uw_result.success
    /\ ~publish_after
    /\ CliExit("exit_0")
    /\ NoFault

\* the upload succeeded and --publish was given: manager.publish_environment()
CliCallPublish ==
    /\ pc = "cli_uploading"
    /\ uw_pc = "returned"
    /\ uw_result.success
    /\ publish_after
    /\ pc' = "cli_publishing"
    /\ pub_pc' = "call"
    /\ publishCalls' = publishCalls + 1
    /\ UNCHANGED <<pub_result, elapsed, polls, pub_pending, pub_clean, pub_last,
                   netLatency>>
    /\ UNCHANGED <<driver, publish_after, run, pkgIdx, entries, entIdx, sha256,
                   isUp, ledgerMem, dataType>>
    /\ UNCHANGED <<prevOk, curOk, curCalls, replaced, vanished, accessed, outcome, lastEnd>>
    /\ UNCHANGED <<diskVars, uwVars, dlVars>>
    /\ NoFault

\* if not publish_result['success']: sys.exit(1); else main returns
PublishExitCodeMut(result) == "exit_0"
PublishExitCode(result) == IF ~result.success THEN "exit_1" ELSE "exit_0"

CliPublishReturned ==
    /\ pc = "cli_publishing"
    /\ pub_pc = "returned"
    /\ CliExit(PublishExitCode(pub_result))
    /\ NoFault

\* publish_environment raised: the except branch of main, sys.exit(1)
CliPublishRaised ==
    /\ pc = "cli_publishing"
    /\ pub_pc = "raised"
    /\ CliExit("exit_1")
    /\ NoFault

\* the file given with --file exists or not; any --retries, any --publish
InitCli ==
    /\ driver = "cli" /\ publish_after \in BOOLEAN /\ run = 0 /\ pc = "cli_start"
    /\ DriverLocalsIdle
    /\ HistInit
    /\ ledgerFile = NoLedgerFile
    /\ ledgerTmp = NoLedgerFile
    /\ \E present \in SUBSET WheelFiles :
         fs = [q \in Paths |->
                 IF q[2] = "" /\ q[1] \in present
                 THEN FileOf(RegistryBytes(q[1])) ELSE NoFile]
    /\ UwFrameIdle /\ DlFrameIdle /\ PubFrameIdle
    /\ netLatency \in {40, 290}
    /\ budget = MaxRetriesBound + 1 /\ inst = NoInstances

CliNext ==
    \/ CliManagerFails \/ CliCallUpload
    \/ UwEnter \/ UwExhausted \/ UwAttemptOk \/ UwAttemptErrStatus
    \/ UwAttemptException
    \/ CliUploadFailed \/ CliUploadRaised \/ CliDoneNoPublish \/ CliCallPublish
    \/ PubPostRaises \/ PubPost200 \/ PubPost202 \/ PubPost202NoId \/ PubPostError
    \/ PollAnswer \/ PollHttpError \/ PollException \/ PollTimeout
    \/ CliPublishReturned \/ CliPublishRaised

SpecCli == InitCli /\ [][CliNext]_vars


(***************************************************************************)
(* Two pipeline processes on one cache root: each has loaded the state     *)
(* file in MirrorState.__init__ and calls mark_uploaded, hence save, for   *)
(* the wheels it uploaded.  Both use the same ".tmp" path.                 *)
(***************************************************************************)
Instances == {1, 2}
\* the records process i writes: its package's wheels
InstKeys(i) == {Key(PkgList[i], f) : f \in WheelFiles}
\* the state files the two processes may find at start
SharedStartLedgers ==
    {NoLedgerFile,
     [exists |-> TRUE, complete |-> TRUE, top |-> "object",
      doc |-> JsonDump(mark_uploaded(EmptyDict, Key("p0", "z-0.1.whl"),
                  sha256_of_file(FileOf(RegistryBytes("a-1.0.whl"))),
                  AttemptResult(200)))]}

\* f.write of the whole document at offset 0 of a file that open(tmp, "w")
\* has truncated earlier: content that another writer put there after the
\* truncation is overwritten from the start, and what it has beyond the end
\* of the new document stays (documents with more members are longer)
WrittenOver(old, doc) ==
    IF Cardinality(old.doc) <= Cardinality(doc)
    THEN [exists |-> TRUE, complete |-> TRUE, top |-> "object", doc |-> doc]
    ELSE [exists |-> TRUE, complete |-> FALSE, top |-> "object",
          doc |-> doc \cup old.doc]

\* what the other processes' open files refer to after the rename of the
\* ".tmp" file onto the state file
FdAfterMove(fd) ==
    CASE fd = "tmp"   -> "final"
      [] fd = "final" -> "unlinked"
      [] OTHER        -> fd

\* state.mark_uploaded(...): the assignment self._data[key] = {...}
InstMark(i) ==
    /\ inst[i].pc = "run"
    /\ \E k \in InstKeys(i) \ DOMAIN inst[i].data :
         inst' = [inst EXCEPT
                    ![i].data = mark_uploaded(inst[i].data, k,
                                   sha256_of_file(FileOf(RegistryBytes(k[2]))),
                                   AttemptResult(200)),
                    ![i].pc = "save_open"]
    /\ UNCHANGED <<diskVars, uwVars, dlVars, pubVars, drvVars, histVars, budget>>

\* MirrorState.save: open(tmp, "w") creates the ".tmp" file or truncates
\* the one that is there
InstSaveOpen(i) ==
    /\ inst[i].pc = "save_open"
    /\ WriteLedgerAt(SaveTmpPath(LedgerPath), OpenedForWrite)
    /\ inst' = [inst EXCEPT ![i].fd = "tmp", ![i].pc = "save_dump"]
    /\ UNCHANGED <<fs, uwVars, dlVars, pubVars, drvVars, histVars, budget>>

\* MirrorState.save: json.dump and the close of the file: the document goes
\* to the file the process has open, wherever that file is by now
InstSaveDump(i) ==
    /\ inst[i].pc = "save_dump"
    /\ CASE inst[i].fd = "tmp" ->
              /\ ledgerTmp' = WrittenOver(ledgerTmp, JsonDump(inst[i].data))
              /\ UNCHANGED ledgerFile
         [] inst[i].fd = "final" ->
              /\ ledgerFile' = WrittenOver(ledgerFile, JsonDump(inst[i].data))
              /\ UNCHANGED ledgerTmp
         [] OTHER -> UNCHANGED <<ledgerFile, ledgerTmp>>
    /\ inst' = [inst EXCEPT ![i].fd = "closed", ![i].pc = "save_move"]
    /\ UNCHANGED <<fs, uwVars, dlVars, pubVars, drvVars, histVars, budget>>

\* MirrorState.save: shutil.move(tmp, self.path)
InstSaveMove(i) ==
    /\ inst[i].pc = "save_move"
    /\ ledgerTmp.exists
    /\ ledgerFile' = ledgerTmp
    /\ ledgerTmp' = NoLedgerFile
    /\ inst' = [j \in Instances |->
                  IF j = i THEN [inst[j] EXCEPT !.pc = "run"]
                  ELSE [inst[j] EXCEPT !.fd = FdAfterMove(inst[j].fd)]]
    /\ UNCHANGED <<fs, uwVars, dlVars, pubVars, drvVars, histVars, budget>>

\* MirrorState.save: shutil.move raises FileNotFoundError, the other process
\* has moved the ".tmp" file away; the driver's except branch around
\* upload_wheel and mark_uploaded prints it and the loop goes on
InstSaveMoveRaises(i) ==
    /\ inst[i].pc = "save_move"
    /\ ~ledgerTmp.exists
    /\ inst' = [inst EXCEPT ![i].pc = "run", ![i].raised = TRUE]
    /\ UNCHANGED <<diskVars, uwVars, dlVars, pubVars, drvVars, histVars, budget>>

InitConcurrent ==
    /\ fs = [p \in Paths |-> NoFile]
    /\ ledgerFile \in SharedStartLedgers
    /\ ledgerTmp = NoLedgerFile
    /\ UwFrameIdle /\ DlFrameIdle /\ PubFrameIdle
    /\ netLatency = 0
    /\ driver = "none" /\ publish_after = FALSE /\ run = 0
    /\ pc = "standalone"
    /\ DriverLocalsIdle
    /\ HistInit
    /\ budget = 0
    /\ inst = [i \in Instances |->
                 [pc |-> "run", data |-> MirrorStateInit(ledgerFile),
                  fd |-> "closed", raised |-> FALSE]]

ConcurrentNext ==
    \E i \in Instances :
        \/ InstMark(i) \/ InstSaveOpen(i) \/ InstSaveDump(i)
        \/ InstSaveMove(i) \/ InstSaveMoveRaises(i)

SpecConcurrent == InitConcurrent /\ [][ConcurrentNext]_vars


(***************************************************************************)
(* Resolution and filter on their own, against an index page whose links   *)
(* carry any of the tails.                                                 *)
(***************************************************************************)
\* the simple index of the package is fetched and parsed
ResolveIndexPage ==
    /\ pc = "resolve"
    /\ \E tails \in [1..Len(SimpleIndex[CurPkg]) -> LinkTails] :
         entries' = LinkEntries(CurPkg, tails)
    /\ pc' = "filter"
    /\ UNCHANGED <<driver, publish_after, run, pkgIdx, entIdx, sha256, isUp,
                   ledgerMem, dataType>>
    /\ UNCHANGED <<diskVars, uwVars, dlVars, pubVars, histVars>>
    /\ NoFault

InitResolve ==
    /\ fs = [p \in Paths |-> NoFile]
    /\ ledgerFile = NoLedgerFile /\ ledgerTmp = NoLedgerFile
    /\ UwFrameIdle /\ DlFrameIdle /\ PubFrameIdle
    /\ netLatency = 0
    /\ driver \in {"azure", "jfrog"}
    /\ publish_after = FALSE
    /\ run = 1
    /\ pc = "resolve"
    /\ pkgIdx = 1 /\ entries = <<>> /\ entIdx = 0
    /\ sha256 = NoDigest /\ isUp = FALSE /\ ledgerMem = EmptyDict
    /\ dataType = "dict"
    /\ HistInit
    /\ budget = 0 /\ inst = NoInstances

ResolveNext == ResolveIndexPage \/ FilterEntries

SpecResolve == InitResolve /\ [][ResolveNext]_vars


(***************************************************************************)
(* Properties.                                                             *)
(***************************************************************************)
InRun == pc \notin {"idle", "standalone"}
DigestOfCached(f) == sha256_of_file(fs[CachePath(f)])

C2_PublishOncePerBatch ==
    (pc = "complete" /\ publish_after /\ Len(PkgList) >= 1) => publishCalls = 1

\* C3: when the run ends, every package other than one whose resolution
\* failed in every strategy has been dealt with.
C3_BatchResilient ==
    pc \in {"complete", "aborted"} =>
        \A p \in Pkgs : outcome[p] = "resolution_failed" =>
            \A q \in Pkgs \ {p} : outcome[q] # "pending"

\* C4: is_uploaded answers true exactly when the record stored under the
\* key has the digest asked for and uploaded = true; a record with another
\* digest does not stop the upload, and the record written after a
\* successful upload carries the digest of the file as it is now.
C4_IsUploadedIff ==
    /\ pc = "checked" =>
         (isUp <=> /\ CurKey \in DOMAIN ledgerMem
                   /\ ledgerMem[CurKey].sha256 = DigestOfCached(CurEntry.filename)
                   /\ ledgerMem[CurKey].uploaded)
    /\ (pc = "uploading" /\ IsWheel(CurEntry.filename)) =>
         ~(/\ CurKey \in DOMAIN ledgerMem
           /\ ledgerMem[CurKey].sha256 = DigestOfCached(CurEntry.filename)
           /\ ledgerMem[CurKey].uploaded)
    /\ pc \in {"save_open", "save_dump", "save_move"} =>
         /\ CurKey \in DOMAIN ledgerMem
         /\ ledgerMem[CurKey].sha256 = DigestOfCached(CurEntry.filename)
         /\ ledgerMem[CurKey].uploaded

\* a file replaced between the runs is uploaded again although the ledger
\* file still holds its record with the old digest, and the new record
\* has the new digest
C4_Witness ==
    /\ pc = "save_open"
    /\ CurEntry.filename \in replaced
    /\ \E m \in ledgerFile.doc :
         /\ m[1] = CurKey
         /\ m[2].sha256 = sha256_of_file(FileOf(RegistryBytes(CurEntry.filename)))
    /\ ledgerMem[CurKey].sha256 =
         sha256_of_file(FileOf(ReplacedBytes(CurEntry.filename)))

\* C5: upload_wheel with max_retries = N >= 1, when no attempt gets a
\* success status, makes exactly N attempts and returns success = false;
\* it never makes more than N attempts.
C5_RetryBound ==
    /\ uw_posts <= uw_max
    /\ (uw_pc \in {"returned", "raised"} /\ fs[uw_path].exists
            /\ uw_max >= 1 /\ uw_oks = 0) =>
         (uw_pc = "returned" /\ uw_posts = uw_max /\ ~uw_result.success)
    /\ (uw_pc = "loop" /\ uw_max >= 1) => uw_posts < uw_max

C5_Witness ==
    /\ uw_pc = "returned" /\ uw_max = 3 /\ uw_posts = 3 /\ uw_oks = 0
    /\ ~uw_result.success /\ uw_result.kind = "exception"

\* C6: upload_wheel never raises.
C6_UploadNeverRaises == uw_pc # "raised"

\* C7: in upload_wheel and in download_url_to_path the i-th sleep lasts
\* 2^(i-1) seconds, a sleep is always followed by another attempt, and a
\* call that made n >= 1 attempts slept n-1 times.
C7_Backoff ==
    /\ \A i \in 1..Len(uw_sleeps) : uw_sleeps[i] = 2 ^ (i - 1)
    /\ \A i \in 1..Len(dl_sleeps) : dl_sleeps[i] = 2 ^ (i - 1)
    /\ uw_pc = "loop" => (Len(uw_sleeps) = uw_posts /\ (uw_max >= 1 => uw_posts < uw_max))
    /\ (uw_pc = "returned" /\ uw_posts >= 1) => Len(uw_sleeps) = uw_posts - 1
    /\ dl_pc = "loop" => (Len(dl_sleeps) = dl_attempts /\ (dl_max >= 1 => dl_attempts < dl_max))
    /\ (dl_pc \in {"stream", "returned", "raised"} /\ dl_attempts >= 1) =>
         Len(dl_sleeps) = dl_attempts - 1

C7_Witness ==
    /\ dl_pc = "raised" /\ dl_max = 4 /\ dl_attempts = 4
    /\ dl_sleeps = <<1, 2, 4>>

\* C8: once a poll has seen Succeeded or Failed the loop has returned (no
\* further poll); after Succeeded the result is success, and when all
\* earlier answers were Running or NotStarted the number of GETs is their
\* number plus one.
C8_PollCount ==
    /\ pub_last \in {"Succeeded", "Failed"} => pub_pc = "returned"
    /\ pub_last = "Succeeded" =>
         /\ pub_result.success
         /\ pub_clean => polls = pub_pending + 1

C8_Witness ==
    /\ pub_pc = "returned" /\ pub_last = "Succeeded" /\ pub_clean
    /\ pub_pending = 2 /\ polls = 3 /\ pub_result.success

\* C9: the "Publish operation failed" result is returned only after a poll
\* saw Failed, the timeout result only when no poll saw Succeeded or Failed
\* and the time is up; an operation still Running at the timeout gives the
\* timeout result, and the two results differ.
C9_TimeoutDistinct ==
    /\ pub_result.kind = ErrOpFailed => pub_last = "Failed"
    /\ pub_result.kind = ErrTimeout =>
         /\ pub_last \notin {"Succeeded", "Failed"}
         /\ elapsed >= max_wait
    /\ (pub_pc = "returned" /\ pub_last \in {"Running", "NotStarted"}) =>
         (pub_result.kind = ErrTimeout /\ ~pub_result.success
            /\ pub_result # FailedResult)

C9_Witness ==
    /\ pub_pc = "returned" /\ pub_last = "Running" /\ pub_clean
    /\ pub_result.kind = ErrTimeout /\ elapsed >= max_wait

\* C10: a file at a final cache path always holds complete bytes (those the
\* registry serves, or those somebody put there by hand); bytes of an
\* unfinished download are at the ".part" path only.
C10_AtomicCache ==
    \A f \in FileNames :
        fs[CachePath(f)] \in {NoFile, FileOf(RegistryBytes(f)), FileOf(ReplacedBytes(f))}

\* a run was killed in the middle of a streamed download
C10_Witness ==
    /\ lastEnd = "crashed"
    /\ \E f \in FileNames :
         /\ fs[<<f, ".part">>].exists
         /\ Len(fs[<<f, ".part">>].bytes) \in 1..(NumChunks - 1)
         /\ ~fs[CachePath(f)].exists


\* the document MirrorState.save writes for the in-memory ledger d
SavedFile(d) ==
    [exists |-> TRUE, complete |-> TRUE, top |-> "object", doc |-> JsonDump(d)]
\* the in-memory ledger without the record of key k
WithoutKey(d, k) == [j \in DOMAIN d \ {k} |-> d[j]]
InSave == pc \in {"save_open", "save_dump", "save_move"}

\* C11: at every step of MirrorState.save, and after the process is killed
\* at any of them, the state file at its final path is absent or a complete
\* document: the one the run loaded or last saved (the previous one) or the
\* one being saved (the new one), never a truncated or half-written file.
C11_AtomicLedger ==
    /\ ledgerFile.exists => ledgerFile.complete
    /\ InSave =>
         \/ ledgerFile = NoLedgerFile
         \/ /\ WithoutKey(JsonLoad(ledgerFile.doc), CurKey)
                 = WithoutKey(ledgerMem, CurKey)
            /\ ledgerFile # SavedFile(ledgerMem)
    /\ (InRun /\ ~InSave /\ ledgerMem # EmptyDict) => ledgerFile = SavedFile(ledgerMem)

\* a run was killed inside save, after the ".tmp" file was opened and before
\* the document was written: the state file still holds the previous document
C11_Witness ==
    /\ lastEnd = "crashed"
    /\ ledgerTmp.exists /\ ~ledgerTmp.complete
    /\ ledgerFile.exists /\ ledgerFile.complete /\ ledgerFile.doc # {}


\* the state file holds, for key k, an uploaded record with the digest that
\* was uploaded
Durable(k) ==
    /\ ledgerFile.exists /\ ledgerFile.complete
    /\ \E r \in ledgerFile.doc :
         /\ r[1] = k
         /\ r[2].uploaded
         /\ r[2].sha256 = (IF k \in curOk THEN ledgerMem[k].sha256 ELSE sha256)

C13_LedgerNeverFatal == \A p \in Pkgs : outcome[p] # "ledger_raised"

\* C14: an I/O error while hashing a cached file ends the processing of
\* that entry only: the run is not aborted by it.
C14_HashFailureContained == \A p \in Pkgs : outcome[p] # "hash_raised"


\* C15: download_url_to_path, as the drivers call it, makes at most 3 GET
\* attempts; it returns right after the attempt that completes (the file is
\* then at the destination, and every earlier attempt failed and was slept
\* on); it raises only after 3 failed attempts.  When it raises, the driver's
\* next step takes the next entry of the same list and touches neither the
\* ledger nor the uploader, and an entry is hashed only with its file in
\* the cache.
C15_DownloadContained ==
    /\ [](/\ dl_pc # "idle" =>
               (dl_max = DefaultDownloadRetries /\ dl_attempts <= dl_max)
          /\ dl_pc = "returned" =>
               /\ fs[dl_dest] = FileOf(RegistryBytes(dl_dest[1]))
               /\ Len(dl_sleeps) = dl_attempts - 1
          /\ dl_pc = "raised" =>
               (dl_attempts = DefaultDownloadRetries /\ ~fs[dl_dest].exists)
          /\ pc \in {"hash", "checked"} => fs[CurPath].exists)
    /\ [][(pc = "downloading" /\ dl_pc = "raised") =>
            \/ pc' = "idle"
            \/ /\ pc' = "entry" /\ entIdx' = entIdx + 1
               /\ UNCHANGED <<entries, pkgIdx, ledgerMem, ledgerFile, curCalls,
                              curOk, uwVars, outcome>>]_vars

\* the download of the first entry of p1 failed (no file for it) and the
\* driver is at the second entry, which it has in the cache and hashes
C15_Witness ==
    /\ pc = "hash" /\ CurPkg = "p1" /\ entIdx = 2
    /\ ~fs[CachePath(entries[1].filename)].exists
    /\ fs[CurPath].exists


\* the names of the world that end, whatever the case, with .whl, .tar.gz
\* or .zip, and those among them that end with .whl
AllowList == {"a-1.0.whl", "a-1.0.tar.gz", "b-2.0.whl", "C-3.0.ZIP"}
WheelNames == {"a-1.0.whl", "b-2.0.whl"}
KeptOf(es) == SelectSeq(es, LAMBDA e : e.filename \in AllowList)
PastFilter ==
    pc \in {"entry", "downloading", "hash", "checked", "uploading",
            "save_open", "save_dump", "save_move", "publishing"}

\* C16: the candidates of a package are exactly the listed entries whose
\* name ends (case-insensitively) with .whl, .tar.gz or .zip; no other file
\* is ever downloaded; under the wheels-only policy only .whl candidates are
\* given to upload_wheel or recorded in the ledger, in memory or on disk.
C16_FilterAndPolicy ==
    /\ PastFilter =>
         entries \in {KeptOf(IndexEntries(CurPkg)), KeptOf(StorageEntries)}
    /\ dl_pc # "idle" => dl_dest[1] \in AllowList
    /\ \A q \in Paths : fs[q].exists => q[1] \in AllowList
    /\ uw_pc # "idle" => uw_path[1] \in WheelNames
    /\ \A k \in curCalls \cup curOk \cup DOMAIN ledgerMem : k[2] \in WheelNames
    /\ \A r \in ledgerFile.doc \cup ledgerTmp.doc : r[1][2] \in WheelNames

\* the .ZIP candidate of the storage listing was the last entry: it has
\* been downloaded and hashed, and the loop went past it without an upload
C16_Witness ==
    /\ pc = "entry" /\ entIdx > Len(entries) /\ Len(entries) >= 1
    /\ entries[Len(entries)].filename = "C-3.0.ZIP"
    /\ fs[CachePath("C-3.0.ZIP")] = FileOf(RegistryBytes("C-3.0.ZIP"))
    /\ Key(CurPkg, "a-1.0.whl") \in curOk
    /\ Key(CurPkg, "C-3.0.ZIP") \notin curCalls \cup DOMAIN ledgerMem


\* C17: when upload_wheel has returned success = false or has raised, the
\* driver's next step takes the next entry of the same package and leaves
\* the ledger, in memory and on disk, as it was; the run is not aborted.
C17_UploadFailureIsolated ==
    [][(/\ pc = "uploading"
        /\ \/ uw_pc = "raised"
           \/ uw_pc = "returned" /\ ~uw_result.success) =>
         \/ pc' = "idle"
         \/ /\ pc' = "entry" /\ entIdx' = entIdx + 1
            /\ UNCHANGED <<ledgerMem, ledgerFile, ledgerTmp, entries, pkgIdx,
                           curOk, outcome>>]_vars

\* the upload of p1's first entry raised (its file had vanished), nothing
\* was recorded for it, and the driver is at the second entry
C17_Witness ==
    /\ pc = "hash" /\ CurPkg = "p1" /\ entIdx = 2
    /\ Key("p1", entries[1].filename) \in curCalls \ curOk
    /\ Key("p1", entries[1].filename) \notin DOMAIN ledgerMem
    /\ ~ledgerFile.exists
    /\ ~fs[CachePath(entries[1].filename)].exists


AtEntry == pc = "entry" /\ entIdx <= Len(entries)

\* C18: for an entry whose file is in the cache the driver's step goes to
\* the hashing without starting download_url_to_path; for an entry whose
\* file is absent it starts the download; a download runs only for a
\* destination that was absent; and no step of the program changes a file
\* that exists at a final cache path.
C18_CacheReuse ==
    /\ [](pc = "downloading" =>
            /\ dl_dest = CurPath
            /\ dl_pc \in {"loop", "stream", "raised"} => ~fs[CurPath].exists)
    /\ [][/\ (AtEntry /\ fs[CurPath].exists) =>
               (pc' \in {"hash", "idle"} /\ UNCHANGED <<fs, dlVars>>)
          /\ (AtEntry /\ ~fs[CurPath].exists) =>
               \/ pc' = "idle"
               \/ pc' = "downloading" /\ dl_pc' = "loop" /\ dl_dest' = CurPath
          /\ budget' = budget =>
               \A f \in FileNames :
                   fs[CachePath(f)].exists => fs'[CachePath(f)] = fs[CachePath(f)]]_vars

\* in a second run the driver hashes a cached file that still holds the
\* bytes put there by hand: it was not fetched again
C18_Witness ==
    /\ run = 2 /\ pc = "hash"
    /\ CurEntry.filename \in replaced
    /\ fs[CurPath] = FileOf(ReplacedBytes(CurEntry.filename))
    /\ dl_pc = "idle"


C20_CliExitCode ==
    /\ pc = "exited" =>
         /\ lastEnd \in {"exit_0", "exit_1"}
         /\ lastEnd = "exit_0" <=>
              /\ uw_pc = "returned" /\ uw_result.success
              /\ publish_after => (pub_pc = "returned" /\ pub_result.success)
    /\ publishCalls <= 1
    /\ (publishCalls = 1 \/ pub_pc # "idle") =>
         (publish_after /\ uw_pc = "returned" /\ uw_result.success)

\* the upload succeeded, the publish timed out: exit code 1
C20_Witness ==
    /\ pc = "exited" /\ lastEnd = "exit_1"
    /\ uw_result.success /\ publishCalls = 1
    /\ pub_result = TimeoutResult


\* C21: two distinct packages processed in one run never work on the same
\* cache path nor on the same ledger key: the cache paths and ledger keys
\* used for one package are disjoint from those used for the other.
C21_KeyDisjoint ==
    \A a, b \in accessed :
        a[1] # b[1] =>
            /\ a[2] # b[2]
            /\ Key(a[1], a[2][1]) # Key(b[1], b[2][1])


\* C22: with two processes that loaded the state file at start and save it
\* in any interleaving, the state file at its final path is at every moment
\* a complete document, and that document is a serialization of the ledger
\* one of the two processes had in memory (ledgers only grow, so an earlier
\* ledger of a process is a part of its present one).
C22_LastWriterWins ==
    (inst # NoInstances /\ ledgerFile.exists) =>
        /\ ledgerFile.complete
        /\ \E i \in Instances : ledgerFile.doc \subseteq JsonDump(inst[i].data)


\* C23: whatever the operation endpoint answers, as long as every GET
\* returns or raises, publish_environment comes back with a result; a poll
\* is started only while the elapsed time is below max_wait; there are
\* never more than max_wait / 10 = 30 polls, and with answers that take no
\* time the timeout result comes after exactly 30 polls.
C23_PollingTerminates ==
    /\ <>(pub_pc \in {"returned", "raised"})
    /\ [][polls' > polls => (elapsed < max_wait /\ polls' = polls + 1)]_vars
    /\ [](polls * PollSleep <= max_wait)
    /\ []((pub_pc = "returned" /\ pub_result = TimeoutResult) =>
            /\ elapsed >= max_wait
            /\ netLatency = 0 => polls * PollSleep = max_wait)

\* thirty polls without a terminal status, each answered at once, then the
\* timeout result
C23_Witness ==
    /\ pub_pc = "returned" /\ pub_result = TimeoutResult
    /\ netLatency = 0 /\ polls = 30 /\ elapsed = max_wait


\* C24: upload_wheel returns success exactly when one of its attempts got
\* the success status; the first such attempt is the last request it sends;
\* when it has returned for a file that exists, the number of attempts is
\* the index of the successful attempt, or max_retries when none succeeded.
C24_SuccessIffAttempt ==
    /\ uw_oks <= 1
    /\ uw_posts <= uw_max
    /\ uw_oks = 1 => (uw_pc = "returned" /\ uw_result.success)
    /\ uw_pc = "returned" =>
         /\ uw_result.success <=> uw_oks = 1
         /\ uw_result.success => uw_result = AttemptResult(200)
         /\ uw_posts = IF uw_result.success THEN uw_attempt + 1 ELSE uw_max

\* a failed attempt, then a successful one: the third is never made
C24_Witness ==
    /\ uw_pc = "returned" /\ uw_result.success
    /\ uw_max = 3 /\ uw_posts = 2 /\ uw_oks = 1
    /\ Len(uw_sleeps) = 1


\* the distribution files the registry holds for package p
PackageFiles(p) == {SimpleIndex[p][i] : i \in 1..Len(SimpleIndex[p])}

\* C25: whatever way a package was resolved, every file the driver works
\* on, hands to upload_wheel or records under package P is a file of P in
\* the registry, and no file is handed to upload_wheel under two packages
\* in one run.
C25_ResolutionPerPackage ==
    /\ \A a \in accessed : a[2][1] \in PackageFiles(a[1])
    /\ \A k \in curCalls \cup curOk : k[2] \in PackageFiles(k[1])
    /\ \A k1, k2 \in curCalls : k1[2] = k2[2] => k1 = k2


\* C26: the filename of every entry made from a link of the index page is
\* the name at the end of the link's path, whatever query string or
\* fragment follows it, and a link to an allow-listed archive is kept by
\* the filter, with that filename.
C26_FilenameDerivation ==
    \A i \in 1..Len(entries) :
        /\ entries[i].filename = entries[i].url[2]
        /\ IsValidDist(entries[i].url[2]) =>
             \E j \in 1..Len(FilterDists(entries)) :
                 FilterDists(entries)[j] = entries[i]


\* C27: within a run the in-memory ledger changes only by the record of the
\* entry whose upload_wheel call has just returned success for the cached
\* file, a wheel, and the record carries the digest that file has; no other
\* record changes, so nothing is recorded for a failed or raised upload, a
\* skipped non-wheel or a failed download.
C27_LedgerSound ==
    [][(InRun /\ InRun' /\ ledgerMem' # ledgerMem) =>
         /\ pc = "uploading" /\ uw_pc = "returned"
         /\ uw_result.success /\ uw_oks = 1
         /\ uw_path = CurPath
         /\ IsWheel(CurEntry.filename)
         /\ fs[CurPath].exists
         /\ DOMAIN ledgerMem' = DOMAIN ledgerMem \cup {CurKey}
         /\ \A k \in DOMAIN ledgerMem : k # CurKey => ledgerMem'[k] = ledgerMem[k]
         /\ ledgerMem'[CurKey].sha256 = sha256_of_file(fs[CurPath])
         /\ ledgerMem'[CurKey].uploaded = TRUE
         /\ ledgerMem'[CurKey].upload_meta = uw_result]_vars

\* the second package's wheel has just been recorded, in a run in which
\* something had failed before
C27_Witness ==
    /\ pc = "save_open" /\ pkgIdx = 2
    /\ CurKey \in DOMAIN ledgerMem
    /\ ledgerMem[CurKey].sha256 = sha256_of_file(fs[CurPath])
    /\ ledgerMem[CurKey].upload_meta = AttemptResult(200)
    /\ budget < MaxFaults


\* C28: once mark_uploaded has returned in a run, the state file is the
\* document of the in-memory ledger, and a MirrorState loaded from it has
\* the same records and answers is_uploaded alike; in a run no record
\* leaves the in-memory ledger or the state file, and every record in
\* memory has uploaded = true.
C28_DurableMonotone ==
    /\ []((InRun /\ ~InSave /\ curOk # {}) =>
            /\ ledgerFile = SavedFile(ledgerMem)
            /\ MirrorStateInit(ledgerFile) = ledgerMem
            /\ \A k \in DOMAIN ledgerMem :
                 is_uploaded(MirrorStateInit(ledgerFile), k, ledgerMem[k].sha256))
    /\ [](InRun => \A k \in DOMAIN ledgerMem : ledgerMem[k].uploaded = TRUE)
    /\ [][(InRun /\ InRun') =>
            /\ DOMAIN ledgerMem \subseteq DOMAIN ledgerMem'
            /\ (ledgerFile.exists /\ ledgerFile.complete) =>
                 /\ ledgerFile'.exists /\ ledgerFile'.complete
                 /\ DOMAIN JsonLoad(ledgerFile.doc)
                      \subseteq DOMAIN JsonLoad(ledgerFile'.doc)]_vars

\* second run: the records of the first run were loaded, one more has been
\* written and saved
C28_Witness ==
    /\ run = 2 /\ pc = "entry" /\ curOk # {}
    /\ DOMAIN ledgerMem \ curOk # {}
    /\ ledgerFile = SavedFile(ledgerMem)


\* C29: publish_environment returns success only after an immediate 200 or
\* after a poll that saw Succeeded; a 202 answer without an operation
\* identifier does not give a success result.
C29_SuccessOnlyWhenComplete ==
    /\ (pub_pc = "returned" /\ pub_result.success) =>
         pub_last \in {"post_200", "Succeeded"}
    /\ (pub_pc = "returned" /\ pub_last = "post_202_noid") =>
         ~pub_result.success


\* what the last poll yielded is not terminal: a status other than
\* Succeeded and Failed, an answer other than 200, or an exception
NonTerminalPoll ==
    pub_last \in (OpStatuses \ {"Succeeded", "Failed"}) \cup {"http_error", "exception"}

\* C30: a poll that yields anything but Succeeded or Failed leaves the loop
\* running with nothing returned and 10 s of sleep added to the elapsed
\* time; from there the only steps are another poll or the timeout result,
\* and one of them comes; the success result is returned only by a poll that
\* saw Succeeded, the 'operation failed' result only by one that saw Failed.
C30_OnlyTerminalStatuses ==
    /\ [][(polls' = polls + 1 /\ NonTerminalPoll') =>
            /\ pub_pc' = "poll"
            /\ pub_result' = pub_result
            /\ elapsed' = elapsed + netLatency + PollSleep]_vars
    /\ [][(pub_pc = "poll" /\ polls >= 1) =>
            \/ polls' = polls + 1
            \/ (pub_pc' = "returned" /\ pub_result' = TimeoutResult)]_vars
    /\ []((pub_pc = "returned" /\ pub_result = SucceededResult) =>
            pub_last = "Succeeded")
    /\ []((pub_pc = "returned" /\ pub_result = FailedResult) =>
            pub_last = "Failed")
    /\ \A n \in 1..(max_wait \div PollSleep) :
         (pub_pc = "poll" /\ polls = n) ~>
            \/ polls = n + 1
            \/ (pub_pc = "returned" /\ pub_result = TimeoutResult)

\* an unrecognised status, then an exception, then the time is over
C30_Witness ==
    /\ pub_pc = "returned" /\ pub_result = TimeoutResult
    /\ pub_last = "exception" /\ polls >= 2 /\ pub_pending = 0

====
